---- MODULE Spec2Model ----
(***************************************************************************)
(* Statistics-derivation layer of the football match analysis application  *)
(* (src/src/stats/matches.py): the Player Stat Aggregator, the Score       *)
(* Reconstructor and the Team Stat Aggregator, as pure functions over the  *)
(* event table delivered by the match event source.                        *)
(*                                                                         *)
(* A DataFrame is a record [ok, columns, rows]: the set of column names    *)
(* and the rows in index order.  Every row is a record over all the        *)
(* fields of the event schema; a field with no value holds NaN.  Reading   *)
(* a column that is not in `columns` raises KeyError, as pandas does.      *)
(* A call's outcome is a record [err, val]: err = "" for a returned value, *)
(* the exception's name otherwise.                                         *)
(***************************************************************************)
EXTENDS Integers, Sequences, FiniteSets, TLC

VARIABLES source, matches, call, ret, request, agent, cache, now, fetches, session

\* The state of the layers around the aggregators: the argument of the tool
\* or endpoint being served, the agent executor, the result cache, the clock,
\* the number of fetches made from the event source and the browser
\* session's state.
adapters == <<request, agent, cache, now, fetches, session>>

vars == <<source, matches, call, ret, adapters>>

\* ------------------------------------------------------------------ bounds

\* Longest event table drawn for the player and the team aggregators.
MaxEvents == 3

\* Longest chat history kept.
MaxMessages == 4

\* Most changes of the selected match followed.
MaxSelections == 3

\* ------------------------------------------------------- program constants

FirstHalfEnd == 45

RegularTimeEnd == 90

PenaltyMinute == 120

\* ------------------------------------------------------------ event schema

NaN == "NaN"

BaseColumns == {"team", "player", "minute", "type"}

OutcomeColumns == {"pass_outcome", "shot_outcome", "dribble_outcome"}

OptionalColumns ==
  OutcomeColumns \cup {"shot_type", "pass_type", "foul_committed_card", "bad_behavior_card"}

HomeTeam == "Home FC"

AwayTeam == "Away FC"

\* A row with no type-specific field set.
Event(team, player, minute, type) ==
  [team |-> team, player |-> player, minute |-> minute, type |-> type,
   pass_outcome |-> NaN, shot_outcome |-> NaN, dribble_outcome |-> NaN,
   shot_type |-> NaN, pass_type |-> NaN,
   foul_committed_card |-> NaN, bad_behavior_card |-> NaN]

\* The optional columns in which some row holds a value: the columns the
\* source's flattening of the raw events creates.
NonNullColumns(rows) ==
  {c \in OptionalColumns : \E i \in 1..Len(rows) : rows[i][c] # NaN}

DataFrame(columns, rows) == [ok |-> TRUE, columns |-> columns, rows |-> rows]

\* The event source failing (no such match, no connection): sb.events raises.
FetchError == [ok |-> FALSE, columns |-> {}, rows |-> <<>>]

\* ------------------------------------------------------------ call results

Ok(v) == [err |-> "", val |-> v]

Raise(e) == [err |-> e, val |-> {}]

Raised(r) == r.err # ""

\* json.dumps / model_dump_json: the value as JSON text.  The text is kept
\* apart from the value it encodes, so a text nested in a text stays visible.
JsonText(v) == [json |-> v]

to_json(v) == JsonText(v)

\* sb.events(match_id): the table of the match, or the source's error.
sb_events(src) == IF src.ok THEN Ok(src) ELSE Raise("SourceError")

get_match_df(src) == sb_events(src)

\* df[name]: the column must exist.
HasColumn(df, name) == name \in df.columns

\* DataFrame.empty: some axis has length 0.
IsEmpty(df) == Len(df.rows) = 0 \/ df.columns = {}

\* ------------------------------------------------- Player Stat Aggregator

MATCH_TIME_MAP == {"whole_match", "first_half", "second_half", "overtime"}

StatFields ==
  {"passes_completed", "passes_attempted", "shots", "shots_on_target",
   "fouls_committed", "fouls_won", "tackles", "interceptions",
   "dribbles_successful", "dribbles_attempted"}

ZeroStats == [f \in StatFields |-> 0]

\* PlayerStats(**stats): every field must validate as an int.
PlayerStats(stats) ==
  IF DOMAIN stats = StatFields /\ \A f \in StatFields : stats[f] \in Int
  THEN Ok(stats) ELSE Raise("ValidationError")

TimeMaskStrict(time, e) ==
  CASE time = "first_half" -> e.minute < FirstHalfEnd
    [] time = "second_half" -> e.minute >= FirstHalfEnd
    [] time = "overtime" -> e.minute >= RegularTimeEnd
    [] OTHER -> TRUE

\* The row mask of the time selector; any other selector filters nothing.
TimeMask(time, e) ==
  CASE time = "first_half" -> e.minute <= FirstHalfEnd
    [] time = "second_half" -> e.minute > FirstHalfEnd
    [] time = "overtime" -> e.minute > RegularTimeEnd
    [] OTHER -> TRUE

FilterByTimeRejecting(df, time) ==
  IF time \in {"first_half", "second_half", "overtime"}
  THEN IF HasColumn(df, "minute")
       THEN Ok([df EXCEPT !.rows = SelectSeq(df.rows, LAMBDA e : TimeMask(time, e))])
       ELSE Raise("KeyError")
  ELSE IF time = "whole_match" THEN Ok(df) ELSE Raise("ValueError")

\* if time == ...: events = events[events["minute"] ...]
FilterByTime(df, time) ==
  IF time \in {"first_half", "second_half", "overtime"}
  THEN IF HasColumn(df, "minute")
       THEN Ok([df EXCEPT !.rows = SelectSeq(df.rows, LAMBDA e : TimeMask(time, e))])
       ELSE Raise("KeyError")
  ELSE Ok(df)

\* events[events["player"] == player_name]; NaN equals nothing.
FilterByPlayer(df, player_name) ==
  IF HasColumn(df, "player")
  THEN Ok([df EXCEPT !.rows =
             SelectSeq(df.rows, LAMBDA e : e.player # NaN /\ e.player = player_name)])
  ELSE Raise("KeyError")

\* df[mask].shape[0] is the number of rows the mask keeps.
PassesCompletedAnyType(pe) ==
  Len(SelectSeq(pe, LAMBDA e : e.pass_outcome = NaN))

PassesCompleted(pe) ==
  Len(SelectSeq(pe, LAMBDA e : e.type = "Pass" /\ e.pass_outcome = NaN))

ShotsOnTarget(pe) ==
  Len(SelectSeq(pe, LAMBDA e : e.type = "Shot" /\ e.shot_outcome = "On Target"))

DribblesSuccessful(pe) ==
  Len(SelectSeq(pe, LAMBDA e : e.type = "Dribble" /\ e.dribble_outcome = "Complete"))

CountType(pe, type) == Len(SelectSeq(pe, LAMBDA e : e.type = type))

\* The ten counts over the player's events.
StatsDict(pe) ==
  [passes_completed |-> PassesCompleted(pe),
   passes_attempted |-> CountType(pe, "Pass"),
   shots |-> CountType(pe, "Shot"),
   shots_on_target |-> ShotsOnTarget(pe),
   fouls_committed |-> CountType(pe, "Foul Committed"),
   fouls_won |-> CountType(pe, "Foul Won"),
   tackles |-> CountType(pe, "Tackle"),
   interceptions |-> CountType(pe, "Interception"),
   dribbles_successful |-> DribblesSuccessful(pe),
   dribbles_attempted |-> CountType(pe, "Dribble")]

ConsolidateStatsTolerant(pdf) ==
  IF ~HasColumn(pdf, "type") THEN Raise("KeyError")
  ELSE PlayerStats(StatsDict(pdf.rows))

\* The stats dict of the player's events; its entries are evaluated in the
\* order written, and the first missing column raises.
ConsolidateStats(pdf) ==
  IF ~HasColumn(pdf, "type") \/ ~HasColumn(pdf, "pass_outcome")
     \/ ~HasColumn(pdf, "shot_outcome") \/ ~HasColumn(pdf, "dribble_outcome")
  THEN Raise("KeyError")
  ELSE PlayerStats(StatsDict(pdf.rows))

\* The body of the try block of get_single_player_stats.
TryPlayerStats(src, player_name, time) ==
  LET fetched == sb_events(src) IN
  IF Raised(fetched) THEN fetched
  ELSE LET events == FilterByTime(fetched.val, time) IN
       IF Raised(events) THEN events
       ELSE IF IsEmpty(events.val) THEN Raise("No events found for the match")
       ELSE LET player_events == FilterByPlayer(events.val, player_name) IN
            IF Raised(player_events) THEN player_events
            ELSE IF IsEmpty(player_events.val)
                 THEN Raise("Player not found in the match events")
                 ELSE ConsolidateStats(player_events.val)

get_single_player_stats_reraise(src, player_name, time) ==
  LET stats == TryPlayerStats(src, player_name, time) IN
  IF Raised(stats) THEN stats ELSE Ok(JsonText(stats.val))

\* try: ... except Exception: the all-zero record; stats.model_dump_json().
get_single_player_stats(src, player_name, time) ==
  LET stats == TryPlayerStats(src, player_name, time) IN
  IF Raised(stats) THEN Ok(JsonText(ZeroStats)) ELSE Ok(JsonText(stats.val))

\* events["player"].dropna().unique()
UniquePlayers(df) ==
  {df.rows[i].player : i \in {j \in 1..Len(df.rows) : df.rows[j].player # NaN}}

UniquePlayersInWindow(df, time) ==
  {df.rows[i].player :
     i \in {j \in 1..Len(df.rows) :
              df.rows[j].player # NaN /\ TimeMask(time, df.rows[j])}}

\* The players whose stats the batch computes.
BatchPlayers(df, time) == UniquePlayers(df)

\* The players get_players_stats asks get_single_player_stats about.
PlayersAsked(events, time) ==
  IF Raised(events) \/ ~HasColumn(events.val, "player") THEN {}
  ELSE BatchPlayers(events.val, time)

\* The body of get_players_stats on the outcome of get_match_df and the
\* outcomes of get_single_player_stats for the players asked.
PlayersStatsOf(events, time, one) ==
  IF Raised(events) THEN events
  ELSE IF ~HasColumn(events.val, "player") THEN Raise("KeyError")
  ELSE LET players == PlayersAsked(events, time)
       IN IF \E p \in players : Raised(one[p])
          THEN Raise(one[CHOOSE p \in players : Raised(one[p])].err)
          ELSE Ok(to_json([p \in players |-> one[p].val]))

get_players_stats(src, time) ==
  LET events == get_match_df(src) IN
  PlayersStatsOf(events, time,
                 [p \in PlayersAsked(events, time) |->
                    get_single_player_stats(src, p, time)])

\* ------------------------------------------------------------ match list

\* The identifier of the match in the match list.
MatchId == 3869685

\* The row of the match in the competition's match list (get_matches_df).
TheMatch == [match_id |-> MatchId, home_team |-> HomeTeam, away_team |-> AwayTeam]

\* matches[matches["match_id"] == match_id], then .values[0] of each side.
get_teams(ms, match_id) ==
  LET match == SelectSeq(ms, LAMBDA m : m.match_id = match_id) IN
  IF match = <<>> THEN Raise("IndexError")
  ELSE Ok(<<match[1].home_team, match[1].away_team>>)

\* ------------------------------------------------------ Score Reconstructor

\* own_goals[["team", "player", "minute"]] with shot_type set to "Own Goal":
\* in the concatenated frame every other field of the row is NaN.
OwnGoalRow(e) ==
  [Event(e.team, e.player, e.minute, NaN) EXCEPT !.shot_type = "Own Goal"]

\* pd.concat([goals, own_goals]): the goal shots, then the own goals.
GoalRows(rows) ==
  SelectSeq(rows, LAMBDA e : e.shot_outcome = "Goal")
  \o [i \in 1..Len(SelectSeq(rows, LAMBDA e : e.type = "Own Goal Against")) |->
        OwnGoalRow(SelectSeq(rows, LAMBDA e : e.type = "Own Goal Against")[i])]

\* The body of get_goals_df on the outcome of get_match_df.
GoalsOf(events, team, shot_type) ==
  IF Raised(events) THEN events
  ELSE IF ~(HasColumn(events.val, "shot_outcome") /\ HasColumn(events.val, "type")
            /\ HasColumn(events.val, "team") /\ HasColumn(events.val, "player")
            /\ HasColumn(events.val, "minute"))
  THEN Raise("KeyError")
  ELSE LET goals == GoalRows(events.val.rows)
           of_type == IF shot_type # ""
                      THEN SelectSeq(goals, LAMBDA e : e.shot_type = shot_type)
                      ELSE goals
           of_team == IF team # ""
                      THEN SelectSeq(of_type, LAMBDA e : e.team = team)
                      ELSE of_type
       IN Ok(DataFrame(events.val.columns \cup {"shot_type"}, of_team))

get_goals_df(src, team, shot_type) == GoalsOf(get_match_df(src), team, shot_type)

\* own_goals["player"].apply(lambda x: f"{x} [OG]")
MarkOwnGoal(e) == [e EXCEPT !.player = e.player \o " [OG]"]

\* The sides whose list receives the own goals of `team`: the list of a side
\* takes own_goals[own_goals["team"] == <the other side's name>], and a
\* comparison with NaN selects no row.
OwnGoalCreditedToSelf(teams, team) == {team}

OwnGoalCreditedTo(teams, team) ==
  {teams[3 - s] : s \in {i \in 1..2 : team # NaN /\ teams[i] = team}}

TeamPlayerGoalsScoredOnly(goals, own_goals, teams, team) ==
  LET scored == SelectSeq(goals, LAMBDA e : e.team = team)
  IN [i \in 1..Len(scored) |->
        [player |-> scored[i].player, minute |-> scored[i].minute, team |-> team]]

\* goals[goals["team"] == team][["player", "minute"]], then the own goals of
\* the other side appended, then the "team" column set to team.
TeamPlayerGoals(goals, own_goals, teams, team) ==
  LET scored == SelectSeq(goals, LAMBDA e : e.team # NaN /\ e.team = team)
      conceded == SelectSeq(own_goals,
                            LAMBDA e : team \in OwnGoalCreditedTo(teams, e.team))
      row(e) == [player |-> e.player, minute |-> e.minute, team |-> team]
  IN [i \in 1..Len(scored) |-> row(scored[i])]
     \o [i \in 1..Len(conceded) |-> row(conceded[i])]

IsPenaltyGoalStrict(e) == e.minute > PenaltyMinute

\* Penalty goals are counted after the minute 120.
IsPenaltyGoal(e) == e.minute >= PenaltyMinute

IsOpenPlayGoalInclusive(e) == e.minute <= PenaltyMinute

IsOpenPlayGoal(e) == e.minute < PenaltyMinute

RECURSIVE GoalsText(_)
\* for i, row in ...iterrows(): text += f"{row['player']} ({row['minute']}'), "
GoalsText(player_goals) ==
  IF player_goals = <<>> THEN ""
  ELSE Head(player_goals).player \o " (" \o ToString(Head(player_goals).minute)
       \o "'), " \o GoalsText(Tail(player_goals))

\* text[:-2]
DropLastTwo(text) == SubSeq(text, 1, Len(text) - 2)

\* groupby("team").size(), read as: count[team] if team in count else 0.
\* groupby leaves the rows whose key is NaN out of every group.
GroupSize(goals, team) ==
  Len(SelectSeq(goals, LAMBDA e : e.team # NaN /\ e.team = team))

\* str(value): a missing value prints as "nan".
str(v) == IF v = NaN THEN "nan" ELSE v

\* The body of get_match_score_details on the outcomes of get_goals_df and
\* get_teams.
ScoreDetailsOf(all_goals, teams) ==
  IF Raised(all_goals) THEN all_goals
  ELSE IF Raised(teams) THEN teams
  ELSE LET own_goals ==
             LET og == SelectSeq(all_goals.val.rows, LAMBDA e : e.shot_type = "Own Goal")
             IN [i \in 1..Len(og) |-> MarkOwnGoal(og[i])]
           goals == SelectSeq(all_goals.val.rows, LAMBDA e : e.shot_type # "Own Goal")
           home_team_player_goals ==
             TeamPlayerGoals(goals, own_goals, teams.val, teams.val[1])
           alway_team_player_goals ==
             TeamPlayerGoals(goals, own_goals, teams.val, teams.val[2])
           credited == home_team_player_goals \o alway_team_player_goals
           penalty_goals == SelectSeq(credited, IsPenaltyGoal)
           open_play_goals == SelectSeq(credited, IsOpenPlayGoal)
           \* if len(teams) == 2: ... else: 0
           alway(of_kind) ==
             IF Len(teams.val) = 2 THEN GroupSize(of_kind, teams.val[2]) ELSE 0
       IN Ok([home_team_name |-> str(teams.val[1]),
              home_team_open_play |-> GroupSize(open_play_goals, teams.val[1]),
              home_team_penalty |-> GroupSize(penalty_goals, teams.val[1]),
              home_team_player_goals |-> DropLastTwo(GoalsText(home_team_player_goals)),
              alway_team_name |-> str(teams.val[2]),
              alway_team_open_play |-> alway(open_play_goals),
              alway_team_penalty |-> alway(penalty_goals),
              alway_team_player_goals |-> DropLastTwo(GoalsText(alway_team_player_goals))])

get_match_score_details(src, ms, match_id) ==
  ScoreDetailsOf(get_goals_df(src, "", ""), get_teams(ms, match_id))

\* ------------------------------------------------------ Team Stat Aggregator

\* A stats_map entry: an event-type string, or a dict of field -> value
\* (its items in order).
TypeRule(type) == [is_dict |-> FALSE, type |-> type, items |-> <<>>]

DictRule(items) == [is_dict |-> TRUE, type |-> "", items |-> items]

\* The map used when stats_map is None (its labels without their pictograms).
DefaultStatsMap ==
  [Shots |-> TypeRule("Shot"),
   Pass |-> TypeRule("Pass"),
   Fouls |-> DictRule(<< <<"type", "Foul Committed">> >>),
   Corners |-> DictRule(<< <<"pass_type", "Corner">> >>),
   Yellow |-> DictRule(<< <<"foul_committed_card", "Yellow Card">>,
                          <<"bad_behavior_card", "Yellow Card">> >>),
   Red |-> DictRule(<< <<"foul_committed_card", "Red Card">>,
                       <<"bad_behavior_card", "Red Card">> >>)]

\* A caller's map: a dict whose two pairs can match one event, a dict on a
\* field no event table has, and a string rule.
CallerStatsMap ==
  [Bookings |-> DictRule(<< <<"type", "Foul Committed">>,
                            <<"foul_committed_card", "Yellow Card">> >>),
   Offsides |-> TypeRule("Offside"),
   Var |-> DictRule(<< <<"var_review", "Goal">>, <<"type", "Shot">> >>)]

StatsMaps == [None |-> DefaultStatsMap, caller |-> CallerStatsMap]

RECURSIVE SumItemsLoop(_, _)
SumItemsLoop(team_events, items) ==
  IF items = <<>> THEN 0
  ELSE (IF HasColumn(team_events, Head(items)[1])
        THEN Len(SelectSeq(team_events.rows,
                           LAMBDA e : e[Head(items)[1]] = Head(items)[2]))
        ELSE 0)
       + SumItemsLoop(team_events, Tail(items))

\* The loop without the column check.
RECURSIVE SumItemsUnchecked(_, _)
SumItemsUnchecked(team_events, items) ==
  IF items = <<>> THEN Ok(0)
  ELSE IF ~HasColumn(team_events, Head(items)[1]) THEN Raise("KeyError")
  ELSE LET rest == SumItemsUnchecked(team_events, Tail(items)) IN
       IF Raised(rest) THEN rest
       ELSE Ok(Len(SelectSeq(team_events.rows,
                             LAMBDA e : e[Head(items)[1]] = Head(items)[2])) + rest.val)

\* Rows with any of the pairs, each row once.
SumItemsOnce(team_events, items) ==
  Ok(Len(SelectSeq(team_events.rows,
                   LAMBDA e : \E k \in 1..Len(items) :
                                /\ HasColumn(team_events, items[k][1])
                                /\ e[items[k][1]] = items[k][2])))

\* stat = 0; for key, value in stat_type.items():
\*   if key in team_events.columns: stat += len(team_events[team_events[key] == value])
SumItems(team_events, items) == Ok(SumItemsLoop(team_events, items))

\* One entry of team_stats.
TeamStat(team_events, stat_type) ==
  IF stat_type.is_dict THEN SumItems(team_events, stat_type.items)
  ELSE IF HasColumn(team_events, "type")
       THEN Ok(Len(SelectSeq(team_events.rows, LAMBDA e : e.type = stat_type.type)))
       ELSE Raise("KeyError")

\* events["team"].unique()
UniqueTeams(df) == {df.rows[i].team : i \in 1..Len(df.rows)}

\* The body of get_match_stats_summary on the outcome of get_match_df.
StatsSummaryOf(events, stats_map) ==
  IF Raised(events) THEN events
  ELSE IF ~HasColumn(events.val, "team") THEN Raise("KeyError")
  ELSE LET teams == UniqueTeams(events.val)
           team_events(team) ==
             [events.val EXCEPT !.rows = SelectSeq(events.val.rows,
                                                   LAMBDA e : e.team = team)]
           stat(team, stat_name) == TeamStat(team_events(team), stats_map[stat_name])
           failed == {<<t, n>> \in teams \X DOMAIN stats_map : Raised(stat(t, n))}
       IN IF failed # {}
          THEN LET f == CHOOSE f \in failed : TRUE IN stat(f[1], f[2])
          ELSE Ok([t \in teams |-> [n \in DOMAIN stats_map |-> stat(t, n).val]])

get_match_stats_summary(src, stats_map) ==
  StatsSummaryOf(get_match_df(src), stats_map)

\* ------------------------------------------------------------ Tool Adapter

\* A value of the JSON object json.loads(action_input) delivers: a number, a
\* string, or no value under the key.
JNum(n) == [kind |-> "number", n |-> n, s |-> ""]

JStr(s) == [kind |-> "string", n |-> 0, s |-> s]

Absent == [kind |-> "absent", n |-> 0, s |-> ""]

ActionKeys == {"match_id", "competition_id", "season_id", "player_name", "time"}

\* The object with no key: no tool or endpoint is being served.
NoRequest == [k \in ActionKeys |-> Absent]

\* json.loads(action_input)[key]
Item(action_input, key) ==
  IF action_input[key].kind = "absent" THEN Raise("KeyError")
  ELSE Ok(action_input[key])

\* The decimal literals among the strings of the model.
DecimalLiterals == [s \in {"3869685"} |-> MatchId]

\* int(x): a number is itself, a string must be a decimal literal.
int(v) ==
  IF v.kind = "number" THEN Ok(v.n)
  ELSE IF v.s \in DOMAIN DecimalLiterals THEN Ok(DecimalLiterals[v.s])
  ELSE Raise("ValueError")

\* int(json.loads(action_input)[key])
IntItem(action_input, key) ==
  LET v == Item(action_input, key) IN IF Raised(v) THEN v ELSE int(v.val)

\* Statements run in order: the first exception raised, if any.
FirstRaised(results) ==
  LET bad == {i \in 1..Len(results) : Raised(results[i])} IN
  IF bad = {} THEN Ok({})
  ELSE results[CHOOSE i \in bad : \A j \in bad : i <= j]

None == [none |-> TRUE]

IsNone(v) == DOMAIN v = {"none"}

\* next((match for match in matches if match["match_id"] == int(match_id)),
\* None): int() runs once per listed match, so not at all on an empty list.
retrieve_match_details_action(ms, action_input) ==
  LET keys == FirstRaised(<<Item(action_input, "match_id"),
                            Item(action_input, "competition_id"),
                            Item(action_input, "season_id")>>)
      match_id == int(action_input["match_id"])
  IN IF Raised(keys) THEN keys
     ELSE IF ms = <<>> THEN Ok(None)
     ELSE IF Raised(match_id) THEN match_id
     ELSE LET found == SelectSeq(ms, LAMBDA m : m.match_id = match_id.val)
          IN IF found = <<>> THEN Ok(None) ELSE Ok(found[1])

get_match_details_tool(ms, action_input) ==
  LET match_details == retrieve_match_details_action(ms, action_input) IN
  IF Raised(match_details) THEN match_details
  ELSE Ok(JsonText(match_details.val))

get_match_score_details_tool(src, ms, action_input) ==
  LET args == FirstRaised(<<IntItem(action_input, "match_id"),
                            IntItem(action_input, "competition_id"),
                            IntItem(action_input, "season_id")>>)
      score_details ==
        get_match_score_details(src, ms, IntItem(action_input, "match_id").val)
  IN IF Raised(args) THEN args
     ELSE IF Raised(score_details) THEN score_details
     ELSE Ok(JsonText(score_details.val))

\* The stats_map the tool passes.
ToolStatsMap ==
  [Shots |-> TypeRule("Shot"),
   Pass |-> TypeRule("Pass"),
   Fouls |-> DictRule(<< <<"type", "Foul Committed">> >>),
   Corners |-> DictRule(<< <<"pass_type", "Corner">> >>),
   Offsides |-> TypeRule("Offside")]
  @@ ("Yellow Cards" :> DictRule(<< <<"foul_committed_card", "Yellow Card">>,
                                    <<"bad_behavior_card", "Yellow Card">> >>))
  @@ ("Red Cards" :> DictRule(<< <<"foul_committed_card", "Red Card">>,
                                 <<"bad_behavior_card", "Red Card">> >>))

get_match_stats_tool(src, action_input) ==
  LET match_id == IntItem(action_input, "match_id")
      stats == get_match_stats_summary(src, ToolStatsMap)
  IN IF Raised(match_id) THEN match_id
     ELSE IF Raised(stats) THEN stats
     ELSE Ok(JsonText(stats.val))

get_player_stats_tool(src, action_input) ==
  LET args == FirstRaised(<<IntItem(action_input, "match_id"),
                            Item(action_input, "time")>>)
  IN IF Raised(args) THEN args
     ELSE get_players_stats(src, action_input["time"].s)

get_single_player_stats_tool(src, action_input) ==
  LET args == FirstRaised(<<IntItem(action_input, "match_id"),
                            Item(action_input, "player_name"),
                            Item(action_input, "time")>>)
  IN IF Raised(args) THEN args
     ELSE get_single_player_stats(src, action_input["player_name"].s,
                                  action_input["time"].s)

\* match_details["match_id"] of None raises TypeError; the lineups and the
\* commentary come from outside, with the outcome `comments`.
get_specialist_comments_tool(ms, action_input, comments) ==
  LET match_details == retrieve_match_details_action(ms, action_input) IN
  IF Raised(match_details) THEN match_details
  ELSE IF IsNone(match_details.val) THEN Raise("TypeError")
  ELSE comments

ToolNames ==
  {"get_match_details_tool", "get_match_score_details_tool",
   "get_match_stats_tool", "get_player_stats_tool",
   "get_single_player_stats_tool", "get_specialist_comments_tool"}

\* tool.run(action_input)
RunTool(tool, src, ms, action_input, comments) ==
  CASE tool = "get_match_details_tool" -> get_match_details_tool(ms, action_input)
    [] tool = "get_match_score_details_tool" ->
         get_match_score_details_tool(src, ms, action_input)
    [] tool = "get_match_stats_tool" -> get_match_stats_tool(src, action_input)
    [] tool = "get_player_stats_tool" -> get_player_stats_tool(src, action_input)
    [] tool = "get_single_player_stats_tool" ->
         get_single_player_stats_tool(src, action_input)
    [] tool = "get_specialist_comments_tool" ->
         get_specialist_comments_tool(ms, action_input, comments)

\* ------------------------------------------------------------ result cache

\* @st.cache_resource(ttl=3600), @st.cache_data(ttl=3600): seconds.
TTL == 3600

\* A call of a decorated function: its name and its arguments (the match is
\* the one match of the model).
Invocation(fn, player_name, time, stats_map) ==
  [op |-> fn, player_name |-> player_name, time |-> time, stats_map |-> stats_map]

CacheKeyIgnoringTime(invocation) == [invocation EXCEPT !.time = ""]

\* The key of an entry: the function and every argument of the call.
CacheKey(invocation) == invocation

LiveInclusive(entry, t) == t - entry.stored <= TTL

\* An entry is served while its age is below the time-to-live.
Live(entry, t) == t - entry.stored < TTL

Lookup(c, key, t) == {e \in c : e.key = key /\ Live(e, t)}

\* cache[key] = value: the entry of the key is replaced, and the entries past
\* their time-to-live are dropped.
Store(c, key, value, t) ==
  {e \in c : e.key # key /\ Live(e, t)}
    \cup {[key |-> key, value |-> value, stored |-> t]}

\* What a call leaves: its outcome, the cache after it and the number of
\* fetches it made from the external source.
Served(result, c, n) == [result |-> result, cache |-> c, fetches |-> n]

\* The decorated function called at time t: a live entry of the key is
\* returned without running the body; otherwise the body runs, and its value
\* is stored unless it raised.
Cached(c, t, key, body) ==
  LET hit == Lookup(c, key, t) IN
  IF hit # {} THEN Served(Ok((CHOOSE e \in hit : TRUE).value), c, 0)
  ELSE IF Raised(body.result) THEN body
  ELSE Served(body.result, Store(body.cache, key, body.result.val, t), body.fetches)

cached_get_match_df(c, t, src) ==
  Cached(c, t, CacheKey(Invocation("get_match_df", "", "", "")),
         Served(sb_events(src), c, 1))

cached_get_single_player_stats_unless_failed(c, t, src, player_name, time) ==
  IF Raised(TryPlayerStats(src, player_name, time))
     /\ Lookup(c, CacheKey(Invocation("get_single_player_stats", player_name, time, "")),
               t) = {}
  THEN Served(get_single_player_stats(src, player_name, time), c, 1)
  ELSE Cached(c, t, CacheKey(Invocation("get_single_player_stats", player_name, time, "")),
              Served(get_single_player_stats(src, player_name, time), c, 1))

\* get_single_player_stats fetches the events itself (sb.events), not
\* through get_match_df.
cached_get_single_player_stats(c, t, src, player_name, time) ==
  Cached(c, t, CacheKey(Invocation("get_single_player_stats", player_name, time, "")),
         Served(get_single_player_stats(src, player_name, time), c, 1))

RECURSIVE PlayersLoop(_, _, _, _, _)
\* for player in players: players_stats[player] = get_single_player_stats(...)
PlayersLoop(served, t, src, players, time) ==
  IF players = {} THEN served
  ELSE LET player == CHOOSE p \in players : TRUE
           one == cached_get_single_player_stats(served.cache, t, src, player, time)
       IN PlayersLoop(Served(served.result @@ (player :> one.result), one.cache,
                             served.fetches + one.fetches),
                      t, src, players \ {player}, time)

cached_get_players_stats(c, t, src, time) ==
  Cached(c, t, CacheKey(Invocation("get_players_stats", "", time, "")),
         LET events == cached_get_match_df(c, t, src)
             loop == PlayersLoop(Served(<<>>, events.cache, events.fetches), t, src,
                                 PlayersAsked(events.result, time), time)
         IN Served(PlayersStatsOf(events.result, time, loop.result),
                   loop.cache, loop.fetches))

cached_get_goals_df(c, t, src) ==
  Cached(c, t, CacheKey(Invocation("get_goals_df", "", "", "")),
         LET events == cached_get_match_df(c, t, src)
         IN Served(GoalsOf(events.result, "", ""), events.cache, events.fetches))

\* The match list is fetched from the source on every run of the body.
cached_get_teams(c, t, ms, match_id) ==
  Cached(c, t, CacheKey(Invocation("get_teams", "", "", "")),
         Served(get_teams(ms, match_id), c, 1))

cached_get_match_score_details(c, t, src, ms, match_id) ==
  Cached(c, t, CacheKey(Invocation("get_match_score_details", "", "", "")),
         LET goals == cached_get_goals_df(c, t, src)
             teams == cached_get_teams(goals.cache, t, ms, match_id)
         IN IF Raised(goals.result) THEN goals
            ELSE Served(ScoreDetailsOf(goals.result, teams.result), teams.cache,
                        goals.fetches + teams.fetches))

cached_get_match_stats_summary(c, t, src, stats_map) ==
  Cached(c, t, CacheKey(Invocation("get_match_stats_summary", "", "", stats_map)),
         LET events == cached_get_match_df(c, t, src)
         IN Served(StatsSummaryOf(events.result, StatsMaps[stats_map]),
                   events.cache, events.fetches))

\* The tool is cached by its action_input, here {"match_id": ..., "time": time}.
cached_get_player_stats_tool(c, t, src, time) ==
  Cached(c, t, CacheKey(Invocation("get_player_stats_tool", "", time, "")),
         LET action_input == [NoRequest EXCEPT !.match_id = JNum(MatchId),
                                               !.time = JStr(time)]
             args == FirstRaised(<<IntItem(action_input, "match_id"),
                                   Item(action_input, "time")>>)
         IN IF Raised(args) THEN Served(args, c, 0)
            ELSE cached_get_players_stats(c, t, src, action_input["time"].s))

\* ------------------------------------------------------------- Chat Agent

max_iterations == 10

\* f"An error occurred: {str(e)}"
ErrorText(e) == "An error occurred: " \o e

ask_reraise(query, response) ==
  IF query = "" THEN Ok("Please provide a query to ask the agent.")
  ELSE IF Raised(response) THEN response
  ELSE Ok(response.val)

\* SmartChatAgent.ask: `response` is the outcome of self.executor.invoke.
ask(query, response) ==
  IF query = "" THEN Ok("Please provide a query to ask the agent.")
  ELSE IF Raised(response) THEN Ok(ErrorText(response.err))
  ELSE Ok(response.val)

\* ------------------------------------------------------ Expert Chat view

\* get_state(key) of a key never set: None.
NoMatchId == 0

\* A second match of the competition's match list.
OtherMatchId == 3869486

MatchIds == {MatchId, OtherMatchId}

\* The options of the sidebar's radio, in its order.
Visualizations == <<"Expert Chat", "Match Commentator", "Data Explorer">>

\* st.session_state and the executor's memory when the page is opened.
\* `displayed` holds the stored messages the last run wrote to the page,
\* `context` the memory the last question was answered with, `rendered` the
\* view the last run drew; `selection` counts the changes of the selected
\* match, so that a message records under which selection it was exchanged.
SessionStart ==
  [selected_match_id |-> NoMatchId, selected_visualization |-> "",
   previous_match_id |-> NoMatchId, history |-> <<>>,
   displayed |-> <<>>, context |-> <<>>, rendered |-> "", selection |-> 0]

\* Sidebar(): the widgets' values go to the session state.
Sidebar(s, match_id, visualization) ==
  [s EXCEPT !.selected_match_id = match_id,
            !.selected_visualization = visualization,
            !.selection = IF match_id # s.selected_match_id THEN @ + 1 ELSE @]

\* SmartChatAgent.clear_chat_history: self.executor.memory.clear()
clear_chat_history(s) == [s EXCEPT !.history = <<>>]

RecordMatchWithoutClearing(s, match_id) ==
  [s EXCEPT !.previous_match_id = match_id]

\* if get_state("previous_match_id") != match_id: clear, then record.
ClearIfMatchChanged(s, match_id) ==
  IF s.previous_match_id # match_id
  THEN [clear_chat_history(s) EXCEPT !.previous_match_id = match_id]
  ELSE s

\* The executor's memory after invoke: the question and the output are
\* appended when invoke returns, nothing when it raises.
save_context(s, query, response) ==
  IF Raised(response) THEN s
  ELSE [s EXCEPT !.history =
          @ \o <<[type |-> "human", content |-> query,
                  match_id |-> s.selected_match_id, selection |-> s.selection],
                 [type |-> "ai", content |-> response.val,
                  match_id |-> s.selected_match_id, selection |-> s.selection]>>]

\* The Expert Chat branch of Main on a run no widget of the view fired: the
\* match details are drawn (an exception of theirs ends the run), then the
\* stored messages.
ExpertChatRun(s, details) ==
  LET cleared == ClearIfMatchChanged(
                   [s EXCEPT !.rendered = Visualizations[1],
                             !.displayed = <<>>, !.context = <<>>],
                   s.selected_match_id)
  IN IF Raised(details) THEN cleared
     ELSE [cleared EXCEPT !.displayed = cleared.history]

\* The Expert Chat branch of Main: `clear_chat` is the Clear Chat button,
\* `user_input` the submitted question ("" if none), `response` the outcome
\* of executor.invoke, `keep_thoughts` the checkbox; st.rerun() runs the
\* script again with no widget fired.
ExpertChat(s, clear_chat, user_input, response, details, keep_thoughts) ==
  LET drawn == ExpertChatRun(s, details) IN
  IF clear_chat /\ drawn.history # <<>>
  THEN ExpertChatRun(clear_chat_history(drawn), details)
  ELSE IF Raised(details) \/ user_input = "" THEN drawn
  ELSE LET answered ==
             [save_context(drawn, user_input, response)
                EXCEPT !.context = drawn.history]
       IN IF keep_thoughts THEN answered
          ELSE [ExpertChatRun(answered, details) EXCEPT !.context = answered.context]

\* Main(): nothing but a notice without a match, else the selected view; the
\* other two views leave the memory and previous_match_id alone.
Main(s, clear_chat, user_input, response, details, keep_thoughts) ==
  IF s.selected_match_id = NoMatchId THEN [s EXCEPT !.rendered = ""]
  ELSE IF s.selected_visualization = Visualizations[1]
  THEN ExpertChat(s, clear_chat, user_input, response, details, keep_thoughts)
  ELSE [s EXCEPT !.rendered = s.selected_visualization,
                 !.displayed = <<>>, !.context = <<>>]

\* --------------------------------------------------------------- HTTP API

\* raise HTTPException(status_code=status): an exception that is no
\* ValueError, carrying the status of the response.
HttpError(status) == [err |-> "HTTPException", val |-> status]

\* The framework converts the query string by the annotations of the
\* handler's signature (match_id: int) before it calls the handler: a
\* match_id that is no integer is answered 422 and the handler does not run.
ConvertQuery(query) ==
  LET match_id == int(query.match_id) IN
  IF Raised(match_id) THEN [err |-> "RequestValidationError", val |-> 422]
  ELSE Ok([query EXCEPT !.match_id = JNum(match_id.val)])

\* The status of the response: the handler's return is a 200, an
\* HTTPException or a validation error its own status, any other exception
\* leaving the handler a 500.
StatusOf(outcome) ==
  IF ~Raised(outcome) THEN 200
  ELSE IF outcome.err \in {"HTTPException", "RequestValidationError"}
       THEN outcome.val
  ELSE 500

\* The parameters in the signature of get_players_stats.
get_players_stats_params == {"match_id", "time"}

\* f(**kwargs): a keyword that is no parameter of f raises TypeError before
\* the body runs.
CallWithKeywords(params, kwargs, result) ==
  IF kwargs \subseteq params THEN result ELSE Raise("TypeError")

\* json.loads(text)
json_loads(text) == Ok(text.json)

\* GET /player_stats: `except ValueError` catches neither the TypeError of
\* the call nor the HTTPException raised inside the try.
player_stats(src, params) ==
  LET match_id == int(params.match_id)
      stats == CallWithKeywords(get_players_stats_params,
                                {"competition_id", "season_id", "match_id",
                                 "player_name", "time"},
                                get_players_stats(src, params.time.s))
  IN IF Raised(match_id) THEN HttpError(400)
     ELSE IF Raised(stats)
          THEN IF stats.err = "ValueError" THEN HttpError(400) ELSE stats
     ELSE json_loads(stats.val)

\* retrieve_match_details: the identifiers written into a JSON object and
\* read back by retrieve_match_details_action.
retrieve_match_details(ms, competition_id, season_id, match_id) ==
  retrieve_match_details_action(
    ms, [NoRequest EXCEPT !.match_id = JNum(match_id),
                          !.competition_id = competition_id,
                          !.season_id = season_id])

\* GET /match_summary: `generation` is the outcome of get_lineups and of the
\* commentary chain.  The 404 raised inside the try is no ValueError and
\* passes the except clause.
match_summary(ms, params, generation) ==
  LET match_id == int(params.match_id)
      match_details ==
        retrieve_match_details(ms, params.competition_id, params.season_id,
                               match_id.val)
  IN IF Raised(match_id) THEN HttpError(400)
     ELSE IF Raised(match_details)
          THEN IF match_details.err = "ValueError" THEN HttpError(400)
               ELSE match_details
     ELSE IF Raised(generation)
          THEN IF generation.err = "ValueError" THEN HttpError(400)
               ELSE generation
     ELSE IF generation.val = "" THEN HttpError(404)
     ELSE Ok([match_id |-> match_id.val, summary |-> generation.val])

\* The routes: the conversion of the query, then the handler.
get_player_stats(src, query) ==
  LET params == ConvertQuery(query) IN
  IF Raised(params) THEN params ELSE player_stats(src, params.val)

get_match_summary(ms, query, generation) ==
  LET params == ConvertQuery(query) IN
  IF Raised(params) THEN params ELSE match_summary(ms, params.val, generation)

\* ---------------------------------------------------------------- inputs

\* The frames of the given rows: with the columns the rows give values to, or
\* with the whole event schema.
TablesOf(rows) ==
  {DataFrame(BaseColumns \cup NonNullColumns(rows), rows),
   DataFrame(BaseColumns \cup OptionalColumns, rows)}

\* The event source holds a table of 1..n rows drawn from Rows.
SourceHolds(Rows, n) ==
  \E k \in 1..n : \E rows \in [1..k -> Rows] : source \in TablesOf(rows)

\* A match with no events: a frame with no rows, with or without columns.
EmptyTables ==
  {DataFrame({}, <<>>), DataFrame(BaseColumns \cup OptionalColumns, <<>>), FetchError}

PlayerA == "Player A"

PlayerB == "Player B"

\* Names asked for; the last one plays in no match.
PlayerNames == {PlayerA, PlayerB, "Player C"}

WithField(e, field, value) == [e EXCEPT ![field] = value]

\* One player's events of every counted kind, and one the aggregator ignores.
CountingRows ==
  LET ev(type) == Event(HomeTeam, PlayerA, 50, type) IN
  {ev("Pass"), WithField(ev("Pass"), "pass_outcome", "Incomplete"),
   WithField(ev("Shot"), "shot_outcome", "On Target"),
   WithField(ev("Shot"), "shot_outcome", "Off T"),
   WithField(ev("Dribble"), "dribble_outcome", "Complete"),
   WithField(ev("Dribble"), "dribble_outcome", "Incomplete"),
   ev("Foul Committed"), ev("Foul Won"), ev("Tackle"), ev("Interception"),
   ev("Carry")}

\* One player's events around the window boundaries.
WindowMinutes == {10, FirstHalfEnd, 50, RegularTimeEnd, 95}

WindowRows ==
  {Event(HomeTeam, PlayerA, m, "Pass") : m \in WindowMinutes}
  \cup {WithField(Event(HomeTeam, PlayerA, m, "Shot"), "shot_outcome", "On Target") :
          m \in WindowMinutes}

\* Events of two players and events of no player, in both halves.
SquadRows ==
  {Event(HomeTeam, p, m, "Pass") : p \in {PlayerA, PlayerB, NaN}, m \in {10, 95}}

\* ----------------------------------------------------------------- calls

NoCall == [op |-> "none", player_name |-> "", time |-> "", stats_map |-> ""]

\* The executor waits for a query: `query` is the one being answered, `tool`
\* and `observation` the last tool run and its outcome, `raised` the
\* exception that ended this answer ("" if none did), `after_error` whether
\* the answer before this one ended with an exception.
AgentIdle ==
  [phase |-> "idle", query |-> "", iterations |-> 0, tool |-> "",
   observation |-> Ok({}), raised |-> "", after_error |-> FALSE]

AdaptersAtRest ==
  /\ request = NoRequest
  /\ agent = AgentIdle
  /\ cache = {}
  /\ now = 0
  /\ fetches = 0
  /\ session = SessionStart

TypeOK ==
  /\ source.ok \in BOOLEAN
  /\ call.op \in {"none", "get_single_player_stats", "get_players_stats",
                  "get_match_score_details", "get_match_stats_summary",
                  "get_match_df", "get_player_stats_tool",
                  "get_single_player_stats_tool", "ask",
                  "player_stats", "match_summary"}
  /\ ret.err \in STRING
  /\ request \in [ActionKeys -> [kind : {"number", "string", "absent"},
                                 n : Nat, s : STRING]]
  /\ agent.phase \in {"idle", "running"}
  /\ agent.iterations \in 0..max_iterations
  /\ now \in Nat
  /\ fetches \in Nat
  /\ \A e \in cache : e.stored <= now
  /\ session.selected_match_id \in MatchIds \cup {NoMatchId}
  /\ session.previous_match_id \in MatchIds \cup {NoMatchId}
  /\ Len(session.history) <= MaxMessages

Init ==
  /\ \/ source \in EmptyTables
     \/ SourceHolds(CountingRows, MaxEvents)
     \/ SourceHolds(WindowRows, MaxEvents)
     \/ SourceHolds(SquadRows, MaxEvents)
  /\ matches = <<TheMatch>>
  /\ call = NoCall
  /\ ret = Ok({})
  /\ AdaptersAtRest

GetSinglePlayerStats ==
  /\ call.op = "none"
  /\ \E player_name \in PlayerNames, time \in MATCH_TIME_MAP :
       /\ call' = [NoCall EXCEPT !.op = "get_single_player_stats",
                                 !.player_name = player_name, !.time = time]
       /\ ret' = get_single_player_stats(source, player_name, time)
  /\ UNCHANGED <<source, matches, adapters>>

GetPlayersStats ==
  /\ call.op = "none"
  /\ \E time \in MATCH_TIME_MAP :
       /\ call' = [NoCall EXCEPT !.op = "get_players_stats", !.time = time]
       /\ ret' = get_players_stats(source, time)
  /\ UNCHANGED <<source, matches, adapters>>

Next == GetSinglePlayerStats \/ GetPlayersStats

Spec == Init /\ [][Next]_vars

\* --------------------------------------------- Score Reconstructor runs

\* The scorer of each side.
ScorerOf(team) == IF team = HomeTeam THEN PlayerA ELSE PlayerB

\* Goal shots around the penalty threshold, a penalty kick scored in play, a
\* saved shot and own goals, for both sides.
ScoreRows ==
  UNION {
    LET shot(m, outcome, shot_type) ==
          [Event(team, ScorerOf(team), m, "Shot")
             EXCEPT !.shot_outcome = outcome, !.shot_type = shot_type]
    IN {shot(50, "Goal", "Open Play"), shot(119, "Goal", "Open Play"),
        shot(PenaltyMinute, "Goal", "Open Play"), shot(50, "Goal", "Penalty"),
        shot(50, "Saved", "Open Play"),
        Event(team, ScorerOf(team), 10, "Own Goal Against"),
        Event(team, ScorerOf(team), PenaltyMinute, "Own Goal Against")}
    : team \in {HomeTeam, AwayTeam}}

InitScore ==
  /\ \/ source \in EmptyTables
     \/ SourceHolds(ScoreRows, MaxEvents)
  /\ matches \in {<<TheMatch>>, <<>>}
  /\ call = NoCall
  /\ ret = Ok({})
  /\ AdaptersAtRest

GetMatchScoreDetails ==
  /\ call.op = "none"
  /\ call' = [NoCall EXCEPT !.op = "get_match_score_details"]
  /\ ret' = get_match_score_details(source, matches, MatchId)
  /\ UNCHANGED <<source, matches, adapters>>

NextScore == GetMatchScoreDetails

SpecScore == InitScore /\ [][NextScore]_vars

\* ------------------------------- Score Reconstructor runs, one team listed

\* The row of a match whose away team the match list does not give.
HomeOnlyMatch == [TheMatch EXCEPT !.away_team = NaN]

InitSides ==
  /\ SourceHolds(ScoreRows, MaxEvents)
  /\ matches \in {<<TheMatch>>, <<HomeOnlyMatch>>}
  /\ call = NoCall
  /\ ret = Ok({})
  /\ AdaptersAtRest

NextSides == GetMatchScoreDetails

SpecSides == InitSides /\ [][NextSides]_vars

\* --------------------------------------------- Team Stat Aggregator runs

\* Events of both sides of every kind the two stats maps count.
TeamRows ==
  UNION {
    LET ev(type) == Event(team, ScorerOf(team), 50, type) IN
    {ev("Shot"), ev("Pass"), WithField(ev("Pass"), "pass_type", "Corner"),
     ev("Foul Committed"),
     WithField(ev("Foul Committed"), "foul_committed_card", "Yellow Card"),
     WithField(ev("Foul Committed"), "foul_committed_card", "Red Card"),
     WithField(ev("Bad Behaviour"), "bad_behavior_card", "Yellow Card"),
     ev("Offside")}
    : team \in {HomeTeam, AwayTeam}}

InitTeam ==
  /\ \/ source \in EmptyTables
     \/ SourceHolds(TeamRows, MaxEvents)
  /\ matches = <<TheMatch>>
  /\ call = NoCall
  /\ ret = Ok({})
  /\ AdaptersAtRest

GetMatchStatsSummary ==
  /\ call.op = "none"
  /\ \E stats_map \in DOMAIN StatsMaps :
       /\ call' = [NoCall EXCEPT !.op = "get_match_stats_summary",
                                 !.stats_map = stats_map]
       /\ ret' = get_match_stats_summary(source, StatsMaps[stats_map])
  /\ UNCHANGED <<source, matches, adapters>>

NextTeam == GetMatchStatsSummary

SpecTeam == InitTeam /\ [][NextTeam]_vars

\* ------------------------------------------------------ Chat Agent runs

\* The identifiers of the competition and the season of the match list.
ListIds == [competition_id |-> 43, season_id |-> 106]

\* The arguments the language model hands to a tool: a match_id that is a
\* number, a decimal string or no number at all, with or without the
\* identifiers of the list, and with no further key, a time, or a time and a
\* player name.
ActionInputs ==
  {[match_id |-> match_id,
    competition_id |-> IF ids THEN JNum(ListIds.competition_id) ELSE Absent,
    season_id |-> IF ids THEN JNum(ListIds.season_id) ELSE Absent,
    player_name |-> IF keys = 2 THEN JStr(PlayerA) ELSE Absent,
    time |-> IF keys >= 1 THEN JStr("whole_match") ELSE Absent] :
     match_id \in {JNum(MatchId), JStr("3869685"), JStr("abc")},
     ids \in BOOLEAN,
     keys \in 0..2}

\* The outcome of the lineups fetch and of the commentary chain.
CommentOutcomes == {Ok("Hello everyone"), Raise("LLMError")}

StopMessage == "Agent stopped due to iteration limit or time limit."

\* A goal of the home side.
HomeGoal ==
  [Event(HomeTeam, PlayerA, 50, "Shot")
     EXCEPT !.shot_outcome = "Goal", !.shot_type = "Open Play"]

InitAgent ==
  /\ source \in EmptyTables \cup TablesOf(<<HomeGoal>>)
  /\ matches \in {<<TheMatch>>, <<>>}
  /\ call = NoCall
  /\ ret = Ok({})
  /\ AdaptersAtRest

\* agent.ask(query=user_input, ...): an empty query is answered at once,
\* any other starts the executor.
Ask ==
  /\ agent.phase = "idle"
  /\ \E query \in {"", "Who scored?"} :
       /\ call' = [NoCall EXCEPT !.op = "ask"]
       /\ ret' = ask(query, Ok(""))
       /\ agent' = [agent EXCEPT
                      !.phase = IF query = "" THEN "idle" ELSE "running",
                      !.query = query, !.iterations = 0, !.raised = "",
                      !.after_error = agent.raised # ""]
  /\ UNCHANGED <<source, matches, request, cache, now, fetches, session>>

\* One iteration of the executor: the model picks a tool and its argument.
\* An exception of the tool leaves executor.invoke and reaches ask.
UseTool ==
  /\ agent.phase = "running"
  /\ agent.iterations < max_iterations
  /\ \E tool \in ToolNames, action_input \in ActionInputs :
     \E comments \in IF tool = "get_specialist_comments_tool"
                      THEN CommentOutcomes ELSE {Ok("")} :
       LET observation == RunTool(tool, source, matches, action_input, comments) IN
       /\ request' = action_input
       /\ IF Raised(observation)
          THEN /\ ret' = ask(agent.query, observation)
               /\ agent' = [agent EXCEPT !.phase = "idle", !.tool = tool,
                                         !.observation = observation,
                                         !.raised = observation.err]
          ELSE /\ ret' = ret
               /\ agent' = [agent EXCEPT !.iterations = @ + 1, !.tool = tool,
                                         !.observation = observation]
  /\ UNCHANGED <<source, matches, call, cache, now, fetches, session>>

\* The executor returns its output: the model's final answer, or the stop
\* message once max_iterations tools have run.
Answer ==
  /\ agent.phase = "running"
  /\ ret' = ask(agent.query,
                Ok(IF agent.iterations < max_iterations THEN "Final Answer"
                   ELSE StopMessage))
  /\ agent' = [agent EXCEPT !.phase = "idle", !.raised = ""]
  /\ UNCHANGED <<source, matches, call, request, cache, now, fetches, session>>

\* The call of the language model raises (no connection, quota).
LlmFails ==
  /\ agent.phase = "running"
  /\ agent.iterations < max_iterations
  /\ ret' = ask(agent.query, Raise("LLMError"))
  /\ agent' = [agent EXCEPT !.phase = "idle", !.raised = "LLMError"]
  /\ UNCHANGED <<source, matches, call, request, cache, now, fetches, session>>

NextAgent == Ask \/ UseTool \/ Answer \/ LlmFails

SpecAgent == InitAgent /\ [][NextAgent]_vars

\* -------------------------------------------------------- HTTP API runs

\* The parameters of the query string.
ApiRequests ==
  {[NoRequest EXCEPT !.match_id = match_id,
                     !.competition_id = JNum(ListIds.competition_id),
                     !.season_id = JNum(ListIds.season_id),
                     !.player_name = JStr(player_name),
                     !.time = JStr(time)] :
     match_id \in {JStr("3869685"), JStr("abc")},
     player_name \in PlayerNames,
     time \in MATCH_TIME_MAP}

\* What the lineups fetch and the commentary chain end with.
GenerationOutcomes ==
  {Ok("Hello everyone"), Ok(""), Raise("ValueError"), Raise("LLMError")}

InitApi ==
  /\ \/ source \in EmptyTables
     \/ SourceHolds(SquadRows, 1)
  /\ matches \in {<<TheMatch>>, <<>>}
  /\ call = NoCall
  /\ ret = Ok({})
  /\ AdaptersAtRest

GetPlayerStats ==
  /\ call.op = "none"
  /\ \E params \in ApiRequests :
       /\ request' = params
       /\ call' = [NoCall EXCEPT !.op = "player_stats",
                                 !.player_name = params.player_name.s,
                                 !.time = params.time.s]
       /\ ret' = get_player_stats(source, params)
  /\ UNCHANGED <<source, matches, agent, cache, now, fetches, session>>

GetMatchSummary ==
  /\ call.op = "none"
  /\ \E params \in ApiRequests, generation \in GenerationOutcomes :
       /\ request' = params
       /\ call' = [NoCall EXCEPT !.op = "match_summary"]
       /\ agent' = [agent EXCEPT !.observation = generation]
       /\ ret' = get_match_summary(matches, params, generation)
  /\ UNCHANGED <<source, matches, cache, now, fetches, session>>

NextApi == GetPlayerStats \/ GetMatchSummary

SpecApi == InitApi /\ [][NextApi]_vars

\* --------------------------------------------------- result cache runs

\* The instants at which calls are made: just below one time-to-live, at
\* it, and just below the next one.
Instants == {0, TTL - 1, TTL, 2 * TTL - 1}

\* A pass of the home side's scorer.
HomePass == Event(HomeTeam, PlayerA, 10, "Pass")

InitCache ==
  /\ source \in {FetchError, DataFrame(BaseColumns \cup OptionalColumns,
                                       <<HomePass, HomeGoal>>)}
  /\ matches = <<TheMatch>>
  /\ call = NoCall
  /\ ret = Ok({})
  /\ AdaptersAtRest

\* A call of a decorated function at the present instant.
Serve(key, served) ==
  /\ call' = key
  /\ ret' = served.result
  /\ cache' = served.cache
  /\ fetches' = served.fetches
  /\ UNCHANGED <<source, matches, request, agent, now, session>>

CallMatchDf ==
  Serve(Invocation("get_match_df", "", "", ""),
        cached_get_match_df(cache, now, source))

CallSinglePlayerStats ==
  \E time \in {"whole_match", "first_half"} :
    Serve(Invocation("get_single_player_stats", PlayerA, time, ""),
          cached_get_single_player_stats(cache, now, source, PlayerA, time))

CallPlayersStats ==
  Serve(Invocation("get_players_stats", "", "whole_match", ""),
        cached_get_players_stats(cache, now, source, "whole_match"))

CallMatchScoreDetails ==
  Serve(Invocation("get_match_score_details", "", "", ""),
        cached_get_match_score_details(cache, now, source, matches, MatchId))

CallMatchStatsSummary ==
  Serve(Invocation("get_match_stats_summary", "", "", "None"),
        cached_get_match_stats_summary(cache, now, source, "None"))

CallPlayerStatsTool ==
  Serve(Invocation("get_player_stats_tool", "", "whole_match", ""),
        cached_get_player_stats_tool(cache, now, source, "whole_match"))

\* Time passes.
Tick ==
  /\ \E t \in Instants : t > now /\ now' = t
  /\ UNCHANGED <<source, matches, call, ret, request, agent, cache, fetches, session>>

NextCache ==
  \/ CallMatchDf \/ CallSinglePlayerStats \/ CallPlayersStats
  \/ CallMatchScoreDetails \/ CallMatchStatsSummary \/ CallPlayerStatsTool
  \/ Tick

SpecCache == InitCache /\ [][NextCache]_vars

\* ------------------------------------- cached calls, the source changing

\* What the event source may answer for the match: an error, a table with no
\* outcome column (its only event is a pass), or the table with the player's
\* pass and goal.
SourceAnswers ==
  {FetchError, DataFrame(BaseColumns, <<HomePass>>),
   DataFrame(BaseColumns \cup OptionalColumns, <<HomePass, HomeGoal>>)}

InitStale ==
  /\ source \in SourceAnswers
  /\ matches = <<TheMatch>>
  /\ call = NoCall
  /\ ret = Ok({})
  /\ AdaptersAtRest

\* The source answers differently from now on (it comes back, it goes down,
\* the match's data is completed).
SourceChanges ==
  /\ source' \in SourceAnswers \ {source}
  /\ UNCHANGED <<matches, call, ret, adapters>>

NextStale == CallSinglePlayerStats \/ SourceChanges \/ Tick

SpecStale == InitStale /\ [][NextStale]_vars

\* ------------------------------------------------- Expert Chat view runs

InitChat ==
  /\ source \in {DataFrame({}, <<>>),
                 DataFrame(BaseColumns \cup OptionalColumns, <<HomeGoal>>)}
  /\ matches = <<TheMatch, [TheMatch EXCEPT !.match_id = OtherMatchId]>>
  /\ call = NoCall
  /\ ret = Ok({})
  /\ AdaptersAtRest

\* display_match_score for the match selected.
MatchDetails(match_id) == get_match_score_details(source, matches, match_id)

\* One run of the script with the widgets' values.
ScriptRun(match_id, visualization, clear_chat, user_input, response, keep_thoughts) ==
  /\ session' = Main(Sidebar(session, match_id, visualization), clear_chat,
                     user_input, response, MatchDetails(match_id), keep_thoughts)
  /\ UNCHANGED <<source, matches, request, agent, cache, now, fetches>>

\* The page is opened: the first match and the first view are selected.
OpenPage ==
  /\ session = SessionStart
  /\ \E match_id \in MatchIds :
       ScriptRun(match_id, Visualizations[1], FALSE, "", Ok(""), TRUE)
  /\ UNCHANGED <<call, ret>>

SelectMatch ==
  /\ session # SessionStart
  /\ session.selection < MaxSelections
  /\ \E match_id \in MatchIds \ {session.selected_match_id} :
       ScriptRun(match_id, session.selected_visualization, FALSE, "", Ok(""), TRUE)
  /\ UNCHANGED <<call, ret>>

SelectVisualization ==
  /\ session # SessionStart
  /\ \E i \in DOMAIN Visualizations :
       /\ Visualizations[i] # session.selected_visualization
       /\ ScriptRun(session.selected_match_id, Visualizations[i], FALSE, "",
                    Ok(""), TRUE)
  /\ UNCHANGED <<call, ret>>

\* The Clear Chat button, enabled while there is a history.
ClearChat ==
  /\ session.rendered = Visualizations[1]
  /\ session.history # <<>>
  /\ ScriptRun(session.selected_match_id, session.selected_visualization,
               TRUE, "", Ok(""), TRUE)
  /\ UNCHANGED <<call, ret>>

\* A question typed into the chat input, which the run draws after the
\* match details.
SubmitQuestion ==
  /\ session.rendered = Visualizations[1]
  /\ ~Raised(MatchDetails(session.selected_match_id))
  /\ Len(session.history) < MaxMessages
  /\ \E response \in {Ok("Final Answer"), Raise("LLMError")},
        keep_thoughts \in BOOLEAN :
       /\ ScriptRun(session.selected_match_id, session.selected_visualization,
                    FALSE, "Who scored?", response, keep_thoughts)
       /\ call' = [NoCall EXCEPT !.op = "ask"]
       /\ ret' = ask("Who scored?", response)

NextChat ==
  \/ OpenPage \/ SelectMatch \/ SelectVisualization \/ ClearChat
  \/ SubmitQuestion

SpecChat == InitChat /\ [][NextChat]_vars

\* ------------------------------------------- runs with any time selector

\* Selectors that are none of the four: another word, another spelling.
OtherSelectors == {"extra_time", "First_Half"}

TimeSelectors == MATCH_TIME_MAP \cup OtherSelectors

InitSelector ==
  /\ \/ source \in EmptyTables
     \/ SourceHolds(WindowRows, MaxEvents)
     \/ SourceHolds(SquadRows, MaxEvents)
  /\ matches = <<TheMatch>>
  /\ call = NoCall
  /\ ret = Ok({})
  /\ AdaptersAtRest

\* The Literal annotation of `time` is not enforced at run time.
GetSinglePlayerStatsAnyTime ==
  /\ call.op = "none"
  /\ \E player_name \in PlayerNames, time \in TimeSelectors :
       /\ call' = [NoCall EXCEPT !.op = "get_single_player_stats",
                                 !.player_name = player_name, !.time = time]
       /\ ret' = get_single_player_stats(source, player_name, time)
  /\ UNCHANGED <<source, matches, adapters>>

RunSinglePlayerStatsTool ==
  /\ call.op = "none"
  /\ \E player_name \in PlayerNames, time \in TimeSelectors :
       /\ call' = [NoCall EXCEPT !.op = "get_single_player_stats_tool",
                                 !.player_name = player_name, !.time = time]
       /\ request' = [NoRequest EXCEPT !.match_id = JNum(MatchId),
                                       !.player_name = JStr(player_name),
                                       !.time = JStr(time)]
       /\ ret' = get_single_player_stats_tool(source, request')
  /\ UNCHANGED <<source, matches, agent, cache, now, fetches, session>>

RunPlayerStatsTool ==
  /\ call.op = "none"
  /\ \E time \in TimeSelectors :
       /\ call' = [NoCall EXCEPT !.op = "get_player_stats_tool", !.time = time]
       /\ request' = [NoRequest EXCEPT !.match_id = JNum(MatchId),
                                       !.time = JStr(time)]
       /\ ret' = get_player_stats_tool(source, request')
  /\ UNCHANGED <<source, matches, agent, cache, now, fetches, session>>

NextSelector ==
  \/ GetSinglePlayerStatsAnyTime \/ RunSinglePlayerStatsTool
  \/ RunPlayerStatsTool

SpecSelector == InitSelector /\ [][NextSelector]_vars

\* ------------------------------------------- claims: Player Stat Aggregator

\* The windows as the specification words them.
ClaimWindow(time, minute) ==
  CASE time = "first_half" -> minute <= 45
    [] time = "second_half" -> minute > 45
    [] time = "overtime" -> minute > 90
    [] time = "whole_match" -> TRUE

\* The positions of the named player's events inside the window.
PlayerRowsInWindow(player_name, time) ==
  {i \in 1..Len(source.rows) :
     /\ source.rows[i].player = player_name
     /\ ClaimWindow(time, source.rows[i].minute)}

\* The counting table of the specification over the rows at positions S.
CountingTable(S) ==
  LET n(P(_)) == Cardinality({i \in S : P(source.rows[i])}) IN
  [passes_attempted |-> n(LAMBDA e : e.type = "Pass"),
   passes_completed |-> n(LAMBDA e : e.type = "Pass" /\ e.pass_outcome = NaN),
   shots |-> n(LAMBDA e : e.type = "Shot"),
   shots_on_target |-> n(LAMBDA e : e.type = "Shot" /\ e.shot_outcome = "On Target"),
   fouls_committed |-> n(LAMBDA e : e.type = "Foul Committed"),
   fouls_won |-> n(LAMBDA e : e.type = "Foul Won"),
   tackles |-> n(LAMBDA e : e.type = "Tackle"),
   interceptions |-> n(LAMBDA e : e.type = "Interception"),
   dribbles_attempted |-> n(LAMBDA e : e.type = "Dribble"),
   dribbles_successful |->
     n(LAMBDA e : e.type = "Dribble" /\ e.dribble_outcome = "Complete")]

SingleCall == call.op = "get_single_player_stats"

BatchCall == call.op = "get_players_stats"

FullSchema == OutcomeColumns \subseteq source.columns

\* C1: for every event table and every player with at least one event inside
\* the window, get_single_player_stats returns the ten fields as the counting
\* table defines them over that player's events in the window.
C1_CountingRules ==
  (SingleCall /\ source.ok /\ PlayerRowsInWindow(call.player_name, call.time) # {})
    => /\ ~Raised(ret)
       /\ ret.val = JsonText(CountingTable(PlayerRowsInWindow(call.player_name, call.time)))

\* C4: the result for a time window is the whole-match result of the table
\* cut down to the window's minutes (first_half: minute <= 45, second_half:
\* minute > 45, overtime: minute > 90, whole_match: every minute); on a table
\* that carries the outcome columns it counts exactly the player's events at
\* those minutes.
C4_TimeWindows ==
  (SingleCall /\ source.ok) =>
    /\ ret = get_single_player_stats(
               [source EXCEPT !.rows =
                  SelectSeq(source.rows, LAMBDA e : ClaimWindow(call.time, e.minute))],
               call.player_name, "whole_match")
    /\ (FullSchema /\ source.rows # <<>>) =>
         ret.val = JsonText(CountingTable(PlayerRowsInWindow(call.player_name, call.time)))

\* Passes of one player at minutes 10, 50 and 95: second_half captures 50 and 95.
C4_Witness ==
  /\ SingleCall /\ call.time = "second_half" /\ FullSchema
  /\ Len(source.rows) = 3
  /\ {source.rows[i].minute : i \in 1..3} = {10, 50, 95}
  /\ \A i \in 1..3 : source.rows[i].player = call.player_name /\ source.rows[i].type = "Pass"
  /\ ~Raised(ret) /\ ret.val.json.passes_attempted = 2

\* C5: the returned record has passes_completed <= passes_attempted,
\* shots_on_target <= shots, dribbles_successful <= dribbles_attempted, and
\* ten non-negative integer fields.
C5_StatsInvariant ==
  SingleCall =>
    /\ ~Raised(ret)
    /\ DOMAIN ret.val.json = StatFields
    /\ \A f \in StatFields : ret.val.json[f] \in Nat
    /\ ret.val.json.passes_completed <= ret.val.json.passes_attempted
    /\ ret.val.json.shots_on_target <= ret.val.json.shots
    /\ ret.val.json.dribbles_successful <= ret.val.json.dribbles_attempted

\* A record where a strict inequality and an equality both occur.
C5_Witness ==
  /\ SingleCall /\ ~Raised(ret)
  /\ ret.val.json.passes_attempted = 2 /\ ret.val.json.passes_completed = 1
  /\ ret.val.json.shots = 1 /\ ret.val.json.shots_on_target = 0

ObservedPlayers == {source.rows[i].player : i \in 1..Len(source.rows)} \ {NaN}

ScoreCall == call.op = "get_match_score_details"

\* The positions of the goal-scoring events: shots with outcome "Goal", and
\* events of type "Own Goal Against".
GoalShots == {i \in 1..Len(source.rows) : source.rows[i].shot_outcome = "Goal"}

OwnGoals == {i \in 1..Len(source.rows) : source.rows[i].type = "Own Goal Against"}

OtherTeam(team) == IF team = HomeTeam THEN AwayTeam ELSE HomeTeam

\* The goal count the summary gives a side.
TeamGoals(team) ==
  IF team = ret.val.home_team_name
  THEN ret.val.home_team_open_play + ret.val.home_team_penalty
  ELSE ret.val.alway_team_open_play + ret.val.alway_team_penalty

TeamText(team) ==
  IF team = ret.val.home_team_name
  THEN ret.val.home_team_player_goals ELSE ret.val.alway_team_player_goals

Contains(text, part) ==
  \E k \in 1..(Len(text) - Len(part) + 1) : SubSeq(text, k, k + Len(part) - 1) = part

TeamCall == call.op = "get_match_stats_summary"

ObservedTeams == {source.rows[i].team : i \in 1..Len(source.rows)}

\* The number of the team's events whose field holds the value.
FieldCount(team, field, value) ==
  Cardinality({i \in 1..Len(source.rows) :
                 /\ source.rows[i].team = team
                 /\ field \in DOMAIN source.rows[i]
                 /\ source.rows[i][field] = value})

RECURSIVE PairSum(_, _)
\* The sum of FieldCount over the listed (field, value) pairs.
PairSum(team, items) ==
  IF items = <<>> THEN 0
  ELSE FieldCount(team, Head(items)[1], Head(items)[2]) + PairSum(team, Tail(items))

CalledMap == StatsMaps[call.stats_map]

\* C9: for a label configured as a field -> value mapping the team's count is
\* the sum over the pairs of the number of the team's events with that field
\* equal to that value; for a label configured as a string it is the number
\* of the team's events of that type; every team observed has an entry for
\* every label.
C9_TeamStats ==
  TeamCall =>
    /\ (source.ok /\ BaseColumns \subseteq source.columns) => ~Raised(ret)
    /\ ~Raised(ret) =>
         /\ DOMAIN ret.val = ObservedTeams
         /\ \A t \in ObservedTeams :
              /\ DOMAIN ret.val[t] = DOMAIN CalledMap
              /\ \A n \in DOMAIN CalledMap :
                   ret.val[t][n] =
                     IF CalledMap[n].is_dict
                     THEN PairSum(t, CalledMap[n].items)
                     ELSE FieldCount(t, "type", CalledMap[n].type)

\* One booked foul of the home side matches both pairs of the "Bookings"
\* rule and counts twice; the away side has its own entries.
C9_Witness ==
  /\ TeamCall /\ ~Raised(ret) /\ call.stats_map = "caller"
  /\ ObservedTeams = {HomeTeam, AwayTeam}
  /\ Cardinality({i \in 1..Len(source.rows) : source.rows[i].team = HomeTeam}) = 1
  /\ ret.val[HomeTeam].Bookings = 2
  /\ ret.val[AwayTeam].Offsides = 1

\* The pairs of a rule whose field is a column of the event table.
PresentItems(items) == SelectSeq(items, LAMBDA it : it[1] \in source.columns)

AbsentFieldReferenced ==
  \E n \in DOMAIN CalledMap :
    \E k \in 1..Len(CalledMap[n].items) : CalledMap[n].items[k][1] \notin source.columns

\* C10: a configuration entry on a field that is no column of the event
\* table contributes 0 and raises nothing; the other pairs and the other
\* labels are counted as usual.
C10_AbsentFieldZero ==
  (TeamCall /\ source.ok /\ source.rows # <<>> /\ AbsentFieldReferenced) =>
    /\ ~Raised(ret)
    /\ \A t \in ObservedTeams : \A n \in DOMAIN CalledMap :
         /\ CalledMap[n].is_dict =>
              /\ ret.val[t][n] = PairSum(t, PresentItems(CalledMap[n].items))
              /\ PresentItems(CalledMap[n].items) = <<>> => ret.val[t][n] = 0
         /\ ~CalledMap[n].is_dict => ret.val[t][n] = FieldCount(t, "type", CalledMap[n].type)

\* No pass_type and no bad_behavior_card column: Corners is 0, the booked
\* foul still counts under Yellow and the pass under Pass.
C10_Witness ==
  /\ TeamCall /\ ~Raised(ret) /\ call.stats_map = "None"
  /\ "pass_type" \notin source.columns /\ "bad_behavior_card" \notin source.columns
  /\ HomeTeam \in ObservedTeams
  /\ ret.val[HomeTeam].Corners = 0
  /\ ret.val[HomeTeam].Yellow = 1
  /\ ret.val[HomeTeam].Pass = 1

\* ----------------------------------------------------- claims: Tool Adapter

\* The argument {"match_id": "abc"}.
MalformedInput == [NoRequest EXCEPT !.match_id = JStr("abc")]

\* C11: whatever tool is run with the argument {"match_id": "abc"}, the tool
\* hands an error string back to the executor: no exception leaves the tool
\* and ends the executor's loop.
C11_MalformedIdIsErrorString ==
  (agent.tool \in ToolNames /\ request = MalformedInput)
    => ~Raised(agent.observation) /\ agent.raised = ""

\* ------------------------------------------------------- claims: Chat Agent

\* C14: ask never raises: when the executor ends with an exception, from the
\* language model or from inside a tool, ask returns the string
\* "An error occurred: " followed by the exception's text, and the agent is
\* back to waiting for a query.
C14_AskCatches ==
  call.op = "ask" =>
    /\ ~Raised(ret)
    /\ agent.phase = "idle" /\ agent.raised # ""
         => ret = Ok(ErrorText(agent.raised))
    /\ agent.phase = "running" \/ agent.phase = "idle"

\* After an answer that ended with an exception the next query was taken; a
\* tool raised on its malformed match_id and ask returned the error string.
C14_Witness ==
  /\ call.op = "ask"
  /\ agent.after_error
  /\ agent.phase = "idle"
  /\ agent.raised = "ValueError"
  /\ agent.tool = "get_match_stats_tool"
  /\ request.match_id = JStr("abc")
  /\ ret = Ok("An error occurred: ValueError")

\* --------------------------------------------------------- claims: HTTP API

\* int(match_id) succeeds, as the claims word it.
IntegerParseable(v) == v.kind = "number" \/ v.s = "3869685"

\* The record the Player Stat Aggregator computes for the request.
RequestedPlayerStats ==
  get_single_player_stats(source, request.player_name.s, request.time.s).val.json

\* C12: GET /player_stats answers a request with an integer match_id with the
\* PlayerStats record of the named player in the window, answers 400 on an
\* invalid match_id and 404 when the stats cannot be retrieved, and ends in no
\* other way.
C12_PlayerStatsEndpoint ==
  call.op = "player_stats" =>
    /\ StatusOf(ret) \in {200, 400, 404}
    /\ IntegerParseable(request.match_id) /\ source.ok
         => StatusOf(ret) = 200 /\ ret.val = RequestedPlayerStats
    /\ ~IntegerParseable(request.match_id) => StatusOf(ret) = 400

\* C13: GET /match_summary answers {match_id, summary} when the generation
\* gives a non-empty text, 400 when match_id is not integer-parseable, and
\* 404 when the generation gives the empty text.
C13_MatchSummaryEndpoint ==
  call.op = "match_summary" =>
    LET generation == agent.observation IN
    /\ ~IntegerParseable(request.match_id) => StatusOf(ret) = 400
    /\ IntegerParseable(request.match_id) /\ ~Raised(generation)
         => IF generation.val = ""
            THEN StatusOf(ret) = 404
            ELSE /\ StatusOf(ret) = 200
                 /\ ret.val = [match_id |-> MatchId, summary |-> generation.val]

\* ------------------------------------------------ claims: error handling

\* C15: the Score Reconstructor does not raise: for a match whose event
\* table is empty, or whose match_id is not in the match list, it returns a
\* summary, with zero counts and empty scorer strings when the table is empty.
C15_AggregatorsDegrade ==
  (ScoreCall /\ source.ok /\ (source.rows = <<>> \/ matches = <<>>))
    => /\ ~Raised(ret)
       /\ source.rows = <<>>
            => /\ TeamGoals(HomeTeam) = 0 /\ TeamGoals(AwayTeam) = 0
               /\ ret.val.home_team_player_goals = ""
               /\ ret.val.alway_team_player_goals = ""

\* ----------------------------------------------------- claims: result cache

\* A step that is a call of a decorated function (time stands still).
CacheCall == now' = now /\ call'.op # "none"

\* The entries of the call's arguments made less than one hour before.
EntriesWithinTheHour ==
  {e \in cache : e.key = call' /\ now - e.stored < 60 * 60}

\* C16: a call whose arguments have an entry made less than one hour before
\* returns that entry's value, fetches nothing and leaves the cache as it is;
\* a call with no such entry that returns stores its value at the present
\* instant; an entry leaves the cache only when its age has reached one hour;
\* and the cache never holds two entries of the same arguments.
C16_ResultCache ==
  /\ [](\A e1, e2 \in cache : e1.key = e2.key => e1 = e2)
  /\ [][/\ CacheCall /\ EntriesWithinTheHour # {}
             => /\ \E e \in EntriesWithinTheHour : ret' = Ok(e.value)
                /\ fetches' = 0
                /\ cache' = cache
        /\ CacheCall /\ EntriesWithinTheHour = {} /\ ~Raised(ret')
             => \E e \in cache' : e.key = call' /\ e.stored = now /\ Ok(e.value) = ret'
        /\ \A e \in cache \ cache' : now' - e.stored >= 60 * 60]_vars

\* The batch was computed at instant 0 and is returned from the cache, with
\* no fetch, one second before the hour.
C16_Witness ==
  /\ call = Invocation("get_players_stats", "", "whole_match", "")
  /\ now = TTL - 1
  /\ fetches = 0
  /\ \E e \in cache : e.key = call /\ e.stored = 0 /\ ret = Ok(e.value)
  /\ source.ok

\* What the aggregator of the call computes from the event source.
Recomputed(invocation) ==
  CASE invocation.op = "get_match_df" -> get_match_df(source)
    [] invocation.op = "get_single_player_stats" ->
         get_single_player_stats(source, invocation.player_name, invocation.time)
    [] invocation.op \in {"get_players_stats", "get_player_stats_tool"} ->
         get_players_stats(source, invocation.time)
    [] invocation.op = "get_match_score_details" ->
         get_match_score_details(source, matches, MatchId)
    [] invocation.op = "get_match_stats_summary" ->
         get_match_stats_summary(source, StatsMaps[invocation.stats_map])

CreditedTo(team) ==
  SelectSeq(source.rows,
            LAMBDA e : \/ e.shot_outcome = "Goal" /\ e.team = team
                       \/ e.type = "Own Goal Against" /\ e.team = OtherTeam(team))

\* The entry of a goal-scoring event: "Name (minute')", the name marked for
\* an own goal.
ScorerEntry(e) ==
  (IF e.type = "Own Goal Against" THEN e.player \o " [OG]" ELSE e.player)
    \o " (" \o ToString(e.minute) \o "')"

RECURSIVE JoinEntries(_)
\* The entries separated by ", ", with no separator after the last.
JoinEntries(events) ==
  IF events = <<>> THEN ""
  ELSE IF Len(events) = 1 THEN ScorerEntry(events[1])
  ELSE ScorerEntry(events[1]) \o ", " \o JoinEntries(Tail(events))

\* The event table lists its events by ascending minute.
Chronological ==
  \A i \in 1..(Len(source.rows) - 1) :
    source.rows[i].minute <= source.rows[i + 1].minute

\* C18: on a table in chronological order, each side's scorer string is the
\* entries of the goal-scoring events credited to it, own goals of the other
\* side included, in the order of the events, separated by ", " with no
\* trailing separator; it is the empty string for a side with no goal.
C18_ScorerStringChronological ==
  (ScoreCall /\ ~Raised(ret) /\ Chronological)
    => \A team \in {HomeTeam, AwayTeam} :
         TeamText(team) = JoinEntries(CreditedTo(team))

\* How many times the part occurs in the text.
Occurrences(text, part) ==
  Cardinality({k \in 1..(Len(text) - Len(part) + 1) :
                 SubSeq(text, k, k + Len(part) - 1) = part})

\* The goal-scoring events of the table that render as the entry.
EventsRendering(events, entry) ==
  Len(SelectSeq(events, LAMBDA e : ScorerEntry(e) = entry))

AllEntries ==
  {ScorerEntry(source.rows[i]) : i \in GoalShots \cup OwnGoals}

ListedName(side) ==
  IF side = 1 THEN matches[1].home_team ELSE matches[1].away_team

\* The goal-scoring events that count for a side: the goal shots of the team
\* of that name and the own goals of the team of the other side's name.
CreditedEvents(side) ==
  {i \in GoalShots : source.rows[i].team = ListedName(side)}
  \cup {i \in OwnGoals \ GoalShots : source.rows[i].team = ListedName(3 - side)}

\* The open_play and penalty counts the summary gives a side.
SideCounts(side) ==
  IF side = 1 THEN <<ret.val.home_team_open_play, ret.val.home_team_penalty>>
  ELSE <<ret.val.alway_team_open_play, ret.val.alway_team_penalty>>

\* The teams the events name.
EventTeams == {source.rows[i].team : i \in 1..Len(source.rows)}

\* The match list gives no away team, or every event is of one team.
OneTeamListed ==
  /\ matches # <<>> /\ source.ok
  /\ ListedName(2) = NaN \/ Cardinality(EventTeams) = 1

\* Wherever the goal data could be built, the call returns and a side with
\* no goal counted for it has open_play = 0 and penalty = 0; so has the away
\* side when the match list names no away team.
MissingSideCountsZero ==
  (ScoreCall /\ matches # <<>> /\ ~Raised(get_goals_df(source, "", "")))
    => /\ ~Raised(ret)
       /\ \A side \in 1..2 :
            (CreditedEvents(side) = {} \/ ListedName(side) = NaN)
              => SideCounts(side) = <<0, 0>>

\* C21: in get_match_score_details a side whose team name is missing from
\* the goal data gets open_play = 0 and penalty = 0 without an error, and
\* when the source data lists only one team the call returns, with the
\* away-side counts at zero, rather than raising.
C21_MissingSideIsZero ==
  /\ MissingSideCountsZero
  /\ (ScoreCall /\ OneTeamListed) => ~Raised(ret)

\* ---------------------------------------- claims: failures become zeros

SinglePlayerCall ==
  /\ source' = source /\ now' = now
  /\ call'.op = "get_single_player_stats"

\* The fetch or the computation fails for the arguments of the call.
FailsNow ==
  \/ ~source.ok \/ ~FullSchema
  \/ PlayerRowsInWindow(call'.player_name, call'.time) = {}

ChatRendered == session.rendered = Visualizations[1]

\* The messages the run displayed, answered a question with, or left stored.
MessagesInPlay ==
  {session.history[i] : i \in 1..Len(session.history)}
  \cup {session.displayed[i] : i \in 1..Len(session.displayed)}
  \cup {session.context[i] : i \in 1..Len(session.context)}

\* C24 as stated: after every run of the Expert Chat view previous_match_id
\* is the selected match, and every message displayed, given to the agent or
\* left in the history was exchanged since the selected match was selected,
\* that is under the present selection.
C24_HistorySinceSelection ==
  ChatRendered =>
    /\ session.previous_match_id = session.selected_match_id
    /\ \A message \in MessagesInPlay : message.selection = session.selection

\* C24, amended: after every run of the Expert Chat view previous_match_id is
\* the selected match, and every message displayed, given to the agent or
\* left in the history was exchanged in that view while the selected match
\* was the match of the conversation (the history is cleared before it is
\* displayed or used whenever the view is drawn for another match than the
\* one it was last drawn for).
C24_HistoryOfSelectedMatch ==
  ChatRendered =>
    /\ session.previous_match_id = session.selected_match_id
    /\ \A message \in MessagesInPlay :
         message.match_id = session.selected_match_id

\* The view is drawn for the other match after a conversation about the
\* first: the history is empty and nothing of it was displayed.
C24_Witness ==
  /\ ChatRendered
  /\ session.selection = 2
  /\ session.previous_match_id = session.selected_match_id
  /\ session.history = <<>> /\ session.displayed = <<>>
  /\ call.op = "ask" /\ ret.val = "Final Answer"

\* ------------------------------------------- claims: the batch's player set

PlayerRows(player_name) == PlayerRowsInWindow(player_name, "whole_match")

\* C26: with a time selector that is none of whole_match, first_half,
\* second_half, overtime, get_single_player_stats and the two player-stats
\* tools reject nothing and return what they return for whole_match: on a
\* table with the outcome columns, the counts over all the player's events.
C26_UnknownSelectorIsWholeMatch ==
  call.time \in OtherSelectors =>
    /\ call.op \in {"get_single_player_stats", "get_single_player_stats_tool"} =>
         /\ ret = get_single_player_stats(source, call.player_name, "whole_match")
         /\ (FullSchema /\ PlayerRows(call.player_name) # {})
              => ret = Ok(JsonText(CountingTable(PlayerRows(call.player_name))))
    /\ call.op = "get_player_stats_tool" =>
         /\ ret = get_players_stats(source, "whole_match")
         /\ (source.ok /\ FullSchema /\ source.rows # <<>>) =>
              /\ ~Raised(ret)
              /\ \A p \in ObservedPlayers :
                   ret.val.json[p] = JsonText(CountingTable(PlayerRows(p)))

\* The tool is asked for "extra_time" and counts the player's passes at the
\* minutes 10, 50 and 95 alike.
C26_Witness ==
  /\ call.op = "get_single_player_stats_tool" /\ call.time = "extra_time"
  /\ request.time = JStr("extra_time")
  /\ FullSchema
  /\ {source.rows[i].minute : i \in PlayerRows(call.player_name)} = {10, 50, 95}
  /\ ~Raised(ret) /\ ret.val.json.passes_attempted = 3

====
